---- MODULE Spec2Model ----
(***************************************************************************)
(* Model of the distributed KMeans estimator of                            *)
(* python/cuml/dask/cluster/kmeans.py: the orchestration done by           *)
(* KMeans.fit (partition assignment, communicator session, fan-out and     *)
(* fan-in of the per-worker fit tasks, selection of the published model),  *)
(* and the inference calls predict, transform, score and fit_predict with  *)
(* their per-shard jobs.                                                   *)
(*                                                                         *)
(* The orchestrating call is a process with a position (pc); the fit tasks *)
(* and inference jobs are run by the worker pool and interleave with it.   *)
(* Spec is the estimator under fit calls, InferSpec a fitted estimator     *)
(* under inference calls, FitPredictSpec the estimator under fit_predict.  *)
(***************************************************************************)
EXTENDS Integers, Sequences, FiniteSets, TLC

\* ---------------------------------------------------------------- bounds
NumWorkers == 2
MaxShards == 2
MaxFits == 2

Workers == 1..NumWorkers
DataTypes == {"cudf", "cupy"}

None == "None"
NoInput == [parts |-> <<>>, type |-> None]
NoWeights == <<>>
NoData == [workers |-> {}, worker_to_parts |-> <<>>, datatype |-> None, multiple |-> FALSE]
NoModel == [sessionId |-> 0, worker |-> 0, cluster_centers_ |-> 0]
NoComms == [sessionId |-> 0, workers |-> {}]
NoError == [kind |-> None, causes |-> <<>>]
NoCall == [name |-> None, sample_weight |-> <<>>, delayed |-> FALSE]
NoResult == [predict |-> <<>>, predict_delayed |-> <<>>, transform |-> <<>>, score |-> <<>>]

VARIABLES
    pc,               \* position of the call in progress
    X,                \* the sharded input of the current call
    sample_weight,    \* NoWeights, or the shards of the weight dataset
    data,             \* the DistributedDataHandler of the current call, or None
    datatype,         \* self.datatype
    local_model,      \* self.local_model
    cluster_centers_, \* self.cluster_centers_
    sessions,         \* every CommsContext constructed so far, by sessionId
    comms,            \* the CommsContext of the current call
    ncalls,           \* the number of fit calls made
    futures,          \* kmeans_fit, or the jobs of an inference call
    settled,          \* indices of kmeans_fit in the order they settled
    error,            \* the exception the current call raised, or None
    pre,              \* the published fields as they were when the call began
    call,             \* the method the caller invoked, with its arguments
    result            \* what the inference calls returned

vars == <<pc, X, sample_weight, data, datatype, local_model, cluster_centers_,
          sessions, comms, ncalls, futures, settled, error, pre, call, result>>

\* ------------------------------------------------------------ sequences
RECURSIVE SumSeq(_)
SumSeq(s) == IF s = <<>> THEN 0 ELSE Head(s) + SumSeq(Tail(s))

Range(s) == {s[i] : i \in 1..Len(s)}

\* --------------------------------------------------------------- inputs
\* A sharded dataset: its partitions, each resident on one worker, and its
\* layout type.  The i-th partition of a feature dataset holds i rows.
Placements == UNION {[1..n -> Workers] : n \in 1..MaxShards}
DatasetOn(own, t) ==
    [parts |-> [i \in 1..Len(own) |-> [owner |-> own[i], rows |-> i]], type |-> t]
Datasets == {DatasetOn(own, t) : own \in Placements, t \in DataTypes}

\* The weight datasets tried with x: none, or one whose i-th partition lies
\* with the i-th partition of x and holds as many rows or one more, and
\* with as many partitions as x or one fewer.
RowCounts(i) == {i, i + 1}
WeightsOn(x, rows) ==
    [i \in 1..Len(rows) |-> [owner |-> x.parts[i].owner, rows |-> rows[i]]]
WeightSets(x) ==
    {NoWeights} \cup
    {WeightsOn(x, rows) :
        rows \in UNION {{r \in [1..n -> 1..(n + 1)] : \A i \in 1..n : r[i] \in RowCounts(i)} :
                        n \in {Len(x.parts) - 1, Len(x.parts)} \ {0}}}

\* --------------------------------------------------- partition assigner
\* cuml.dask.common.input_utils.DistributedDataHandler, used at line 141,
\* after section 4.1 of the specification: shards are grouped under the
\* worker they reside on and are not moved.
RECURSIVE FirstSeen(_, _)
\* the owners of parts[1..n], each once, in order of first appearance
FirstSeen(parts, n) ==
    IF n = 0 THEN <<>>
    ELSE LET p == FirstSeen(parts, n - 1)
         IN  IF parts[n].owner \in Range(p) THEN p ELSE Append(p, parts[n].owner)

RECURSIVE PartsOn(_, _, _)
\* the indices of parts[1..n] resident on worker w, ascending
PartsOn(parts, w, n) ==
    IF n = 0 THEN <<>>
    ELSE PartsOn(parts, w, n - 1) \o (IF parts[n].owner = w THEN <<n>> ELSE <<>>)

RowsOn(parts, w) ==
    LET ix == PartsOn(parts, w, Len(parts)) IN [k \in 1..Len(ix) |-> parts[ix[k]].rows]

\* each worker's weight shards align one-to-one and row-count-exact with
\* that worker's feature shards
Aligned(x, sw) ==
    sw = NoWeights \/ \A w \in Workers : RowsOn(sw, w) = RowsOn(x.parts, w)

\* the parts handed to worker w: feature shards, or (features, weights) pairs
WorkerParts(x, sw, w) ==
    LET xi == PartsOn(x.parts, w, Len(x.parts))
    IN  IF sw = NoWeights THEN [k \in 1..Len(xi) |-> <<xi[k]>>]
        ELSE LET wi == PartsOn(sw, w, Len(sw))
             IN  [k \in 1..Len(xi) |-> <<xi[k], wi[k]>>]

\* variant: only the first shard of each worker is kept
WorkersToFirstPart(x, sw) ==
    LET order == FirstSeen(x.parts, Len(x.parts))
    IN  [k \in 1..Len(order) |-> <<order[k], SubSeq(WorkerParts(x, sw, order[k]), 1, 1)>>]

WorkersToParts(x, sw) ==
    LET order == FirstSeen(x.parts, Len(x.parts))
    IN  [k \in 1..Len(order) |-> <<order[k], WorkerParts(x, sw, order[k])>>]

\* DistributedDataHandler.multiple: whether the input handed to create is an
\* (X, sample_weight) pair (line 139) rather than X alone.  fit passes it to
\* _func_fit as has_weights (line 151), and test_weighted_kmeans fits one
\* partition with weights and requires the weights to take effect.
Multiple(sw) == sw # NoWeights

\* DistributedDataHandler.create(inputs): the handler of an aligned input
Create(x, sw) ==
    [workers         |-> {x.parts[i].owner : i \in 1..Len(x.parts)},
     worker_to_parts |-> WorkersToParts(x, sw),
     datatype        |-> x.type,
     multiple        |-> Multiple(sw)]

\* ------------------------------------------------------------ fit tasks
\* variant: the task is submitted without workers=[wf[0]]
SubmitAnywhere(sid, wf, dt, hw) ==
    [sessionId   |-> sid,
     objs        |-> wf[2],
     datatype    |-> dt,
     has_weights |-> hw,
     workers     |-> Workers,
     status      |-> "pending",
     ranOn       |-> 0,
     inp_data    |-> <<>>,
     inp_weights |-> <<>>]

\* client.submit(KMeans._func_fit, comms.sessionId, wf[1], self.datatype, ...,
\*               data.multiple, workers=[wf[0]], pure=False): a new pending
\* future; inp_data and inp_weights are what its body hands to the engine
Submit(sid, wf, dt, hw) ==
    [sessionId   |-> sid,
     objs        |-> wf[2],
     datatype    |-> dt,
     has_weights |-> hw,
     workers     |-> {wf[1]},
     status      |-> "pending",
     ranOn       |-> 0,
     inp_data    |-> <<>>,
     inp_weights |-> <<>>]

RECURSIVE Concatenate(_)
\* concatenate(objs): the objects of objs joined in order
Concatenate(objs) == IF objs = <<>> THEN <<>> ELSE Head(objs) \o Concatenate(Tail(objs))

\* "for X, weights in objs" needs every object to be a pair
Unpacks(objs) == \A k \in 1..Len(objs) : Len(objs[k]) = 2

\* variant: _func_fit takes the branch without weights whatever has_weights is
FuncFitUnweighted(objs, has_weights) ==
    [inp_data |-> Concatenate(objs), inp_weights |-> NoWeights]

\* lines 105-110: the input and the weights _func_fit hands to the engine
FuncFit(objs, has_weights) ==
    IF ~has_weights
    THEN [inp_data |-> Concatenate(objs), inp_weights |-> NoWeights]
    ELSE IF Unpacks(objs)
    THEN [inp_data    |-> Concatenate([k \in 1..Len(objs) |-> <<objs[k][1]>>]),
          inp_weights |-> Concatenate([k \in 1..Len(objs) |-> <<objs[k][2]>>])]
    ELSE [inp_data |-> <<>>, inp_weights |-> NoWeights]

\* the fitted local model a task returns (KMeansMG(...).fit(...)); the
\* workers synchronise their centroids through the session
FitResult(f) ==
    [sessionId |-> f.sessionId, worker |-> f.ranOn, cluster_centers_ |-> f.sessionId]

\* the exception of a failed task
FitException(f) == [worker |-> f.ranOn]

Settled(f) == f.status \in {"finished", "error"}

\* the scheduler starts future i on a worker its restriction allows
TaskStart(i) ==
    /\ i \in 1..Len(futures)
    /\ futures[i].status = "pending"
    /\ \E w \in futures[i].workers :
           LET inp == FuncFit(futures[i].objs, futures[i].has_weights)
           IN  futures' = [futures EXCEPT ![i].status = "running", ![i].ranOn = w,
                                          ![i].inp_data = inp.inp_data,
                                          ![i].inp_weights = inp.inp_weights]
    /\ UNCHANGED <<pc, X, sample_weight, data, datatype, local_model,
                   cluster_centers_, sessions, comms, ncalls, settled, error, pre, call, result>>

\* _func_fit returns on its worker
TaskFinish(i) ==
    /\ i \in 1..Len(futures)
    /\ futures[i].status = "running"
    /\ futures[i].has_weights => Unpacks(futures[i].objs)
    /\ futures' = [futures EXCEPT ![i].status = "finished"]
    /\ settled' = Append(settled, i)
    /\ UNCHANGED <<pc, X, sample_weight, data, datatype, local_model,
                   cluster_centers_, sessions, comms, ncalls, error, pre, call, result>>

\* _func_fit raises on its worker
TaskFail(i) ==
    /\ i \in 1..Len(futures)
    /\ futures[i].status = "running"
    /\ futures' = [futures EXCEPT ![i].status = "error"]
    /\ settled' = Append(settled, i)
    /\ UNCHANGED <<pc, X, sample_weight, data, datatype, local_model,
                   cluster_centers_, sessions, comms, ncalls, error, pre, call, result>>

\* ------------------------------------------------------------------ fit
Published == [datatype         |-> datatype,
              local_model      |-> local_model,
              cluster_centers_ |-> cluster_centers_]

RECURSIVE FirstFutureError(_, _)
\* variant: only the first failure found is reported
FirstFutureError(futs, n) ==
    IF n = 0 THEN <<>>
    ELSE LET e == FirstFutureError(futs, n - 1)
         IN  IF e # <<>> THEN e
             ELSE IF futs[n].status = "error" THEN <<FitException(futs[n])>> ELSE <<>>

RECURSIVE FutureErrors(_, _)
\* cuml.dask.common.utils.raise_exception_from_futures, after section 4.3 of
\* the specification: the exceptions of futs[1..n], one per failed future,
\* in the order of the futures
FutureErrors(futs, n) ==
    IF n = 0 THEN <<>>
    ELSE FutureErrors(futs, n - 1)
         \o (IF futs[n].status = "error" THEN <<FitException(futs[n])>> ELSE <<>>)

\* variant: create compares only how many shards each worker holds, not
\* how many rows they have
FitCallRowsUnchecked(x, sw) ==
    /\ ncalls' = ncalls + 1
    /\ X' = x
    /\ sample_weight' = sw
    /\ pre' = Published
    /\ futures' = <<>>
    /\ settled' = <<>>
    /\ comms' = NoComms
    /\ IF sw = NoWeights
          \/ \A w \in Workers : Len(RowsOn(sw, w)) = Len(RowsOn(x.parts, w))
       THEN /\ data' = Create(x, sw)
            /\ datatype' = data'.datatype
            /\ error' = NoError
            /\ pc' = "comms"
       ELSE /\ data' = NoData
            /\ error' = [kind |-> "ShardAlignmentError", causes |-> <<>>]
            /\ pc' = "raised"
            /\ UNCHANGED datatype
    /\ UNCHANGED <<local_model, cluster_centers_, sessions, result>>

\* lines 139-142: the call, the partition assignment, self.datatype
FitCall(x, sw) ==
    /\ ncalls' = ncalls + 1
    /\ X' = x
    /\ sample_weight' = sw
    /\ pre' = Published
    /\ futures' = <<>>
    /\ settled' = <<>>
    /\ comms' = NoComms
    /\ IF Aligned(x, sw)
       THEN /\ data' = Create(x, sw)
            /\ datatype' = data'.datatype
            /\ error' = NoError
            /\ pc' = "comms"
       ELSE /\ data' = NoData
            /\ error' = [kind |-> "ShardAlignmentError", causes |-> <<>>]
            /\ pc' = "raised"
            /\ UNCHANGED datatype
    /\ UNCHANGED <<local_model, cluster_centers_, sessions, result>>

\* fit(X, sample_weight) is called on the estimator, which is not in a call
Fit ==
    /\ pc = "idle"
    /\ ncalls < MaxFits
    /\ \E x \in Datasets : \E sw \in WeightSets(x) :
          /\ FitCall(x, sw)
          /\ call' = [name |-> "fit", sample_weight |-> sw, delayed |-> FALSE]

\* variant: the session enrolls every worker of the cluster
CommsInitAllWorkers(failPc) ==
    /\ pc = "comms"
    /\ comms' = [sessionId |-> Len(sessions) + 1, workers |-> Workers]
    /\ \/ /\ sessions' = Append(sessions, [state |-> "open", destroyed |-> 0])
          /\ pc' = "submit"
          /\ UNCHANGED error
       \/ /\ sessions' = Append(sessions, [state |-> "new", destroyed |-> 0])
          /\ error' = [kind |-> "CommsInitError", causes |-> <<>>]
          /\ pc' = failPc
    /\ UNCHANGED <<X, sample_weight, data, datatype, local_model,
                   cluster_centers_, ncalls, futures, settled, pre, call, result>>

\* lines 144-145: comms = CommsContext(...); comms.init(workers=data.workers)
\* failPc is where the call goes when init raises
CommsInit(failPc) ==
    /\ pc = "comms"
    /\ comms' = [sessionId |-> Len(sessions) + 1, workers |-> data.workers]
    /\ \/ /\ sessions' = Append(sessions, [state |-> "open", destroyed |-> 0])
          /\ pc' = "submit"
          /\ UNCHANGED error
       \/ /\ sessions' = Append(sessions, [state |-> "new", destroyed |-> 0])
          /\ error' = [kind |-> "CommsInitError", causes |-> <<>>]
          /\ pc' = failPc
    /\ UNCHANGED <<X, sample_weight, data, datatype, local_model,
                   cluster_centers_, ncalls, futures, settled, pre, call, result>>

\* variant: a failed init is swallowed and the call goes on to submit
FitCommsSwallowed == CommsInit("submit")

FitComms == CommsInit("raised")

\* lines 147-155: the next element of the list comprehension
FitSubmit ==
    /\ pc = "submit"
    /\ LET k == Len(futures) + 1
       IN  /\ futures' = Append(futures,
                                Submit(comms.sessionId, data.worker_to_parts[k],
                                       datatype, data.multiple))
           /\ pc' = IF k = Len(data.worker_to_parts) THEN "wait" ELSE "submit"
    /\ UNCHANGED <<X, sample_weight, data, datatype, local_model, cluster_centers_,
                   sessions, comms, ncalls, settled, error, pre, call, result>>

\* variant: wait returns as soon as one future has settled
FitWaitFirst ==
    /\ pc = "wait"
    /\ \E i \in 1..Len(futures) : futures[i].status \in {"finished", "error"}
    /\ pc' = "check"
    /\ UNCHANGED <<X, sample_weight, data, datatype, local_model, cluster_centers_,
                   sessions, comms, ncalls, futures, settled, error, pre, call, result>>

\* line 157: wait(kmeans_fit) returns once every future has settled
FitWait ==
    /\ pc = "wait"
    /\ \A i \in 1..Len(futures) : Settled(futures[i])
    /\ pc' = "check"
    /\ UNCHANGED <<X, sample_weight, data, datatype, local_model, cluster_centers_,
                   sessions, comms, ncalls, futures, settled, error, pre, call, result>>

\* variant: the futures are not checked for exceptions
FitCheckSkipped ==
    /\ pc = "check"
    /\ pc' = "destroy"
    /\ UNCHANGED <<X, sample_weight, data, datatype, local_model, cluster_centers_,
                   sessions, comms, ncalls, futures, settled, error, pre, call, result>>

\* line 158: raise_exception_from_futures(kmeans_fit)
FitCheck ==
    /\ pc = "check"
    /\ LET errs == FutureErrors(futures, Len(futures))
       IN  IF errs # <<>>
           THEN /\ error' = [kind |-> "DistributedFitError", causes |-> errs]
                /\ pc' = "raised"
           ELSE /\ pc' = "destroy"
                /\ UNCHANGED error
    /\ UNCHANGED <<X, sample_weight, data, datatype, local_model, cluster_centers_,
                   sessions, comms, ncalls, futures, settled, pre, call, result>>

\* variant: comms.destroy() is reached without waiting for the tasks
FitDestroyEarly ==
    /\ pc \in {"wait", "destroy"}
    /\ sessions' = [sessions EXCEPT ![comms.sessionId] =
                        [state |-> "closed", destroyed |-> @.destroyed + 1]]
    /\ pc' = "select"
    /\ UNCHANGED <<X, sample_weight, data, datatype, local_model, cluster_centers_,
                   comms, ncalls, futures, settled, error, pre, call, result>>

\* line 160: comms.destroy()
FitDestroy ==
    /\ pc = "destroy"
    /\ sessions' = [sessions EXCEPT ![comms.sessionId] =
                        [state |-> "closed", destroyed |-> @.destroyed + 1]]
    /\ pc' = "select"
    /\ UNCHANGED <<X, sample_weight, data, datatype, local_model, cluster_centers_,
                   comms, ncalls, futures, settled, error, pre, call, result>>

\* variant: the published model is the result that arrived first
FitSelectFirstSettled ==
    /\ pc = "select"
    /\ local_model' = [sessionId        |-> futures[settled[1]].sessionId,
                       worker           |-> futures[settled[1]].ranOn,
                       cluster_centers_ |-> futures[settled[1]].sessionId]
    /\ cluster_centers_' = local_model'.cluster_centers_
    /\ pc' = "returned"
    /\ UNCHANGED <<X, sample_weight, data, datatype, sessions, comms, ncalls,
                   futures, settled, error, pre, call, result>>

\* lines 162-165: the published model is kmeans_fit[0].result()
FitSelect ==
    /\ pc = "select"
    /\ local_model' = FitResult(futures[1])
    /\ cluster_centers_' = local_model'.cluster_centers_
    /\ pc' = "returned"
    /\ UNCHANGED <<X, sample_weight, data, datatype, sessions, comms, ncalls,
                   futures, settled, error, pre, call, result>>

\* fit returns self (line 165) or the exception leaves fit: the frame of the
\* call, with its locals inputs, data, comms and kmeans_fit, is dropped
FitExit ==
    /\ pc = "raised" \/ (pc = "returned" /\ call.name = "fit")
    /\ pc' = "idle"
    /\ X' = NoInput
    /\ sample_weight' = NoWeights
    /\ data' = NoData
    /\ comms' = NoComms
    /\ futures' = <<>>
    /\ settled' = <<>>
    /\ error' = NoError
    /\ pre' = Published
    /\ call' = NoCall
    /\ UNCHANGED <<datatype, local_model, cluster_centers_, sessions, ncalls, result>>

\* ------------------------------------------------------------ inference
\* n_clusters of the estimator (line 53)
NClusters == 8

\* The single-GPU engine, cuml.cluster.KMeans, as the jobs use it on one
\* shard.  Row r of a shard lies at Distance from its nearest centroid.
Distance(m, part, r) == r + part.owner
\* model.predict(shard): one label per row
Labels(m, part) ==
    [r \in 1..part.rows |-> (r + part.owner + m.cluster_centers_) % NClusters]
\* model.transform(shard): one row of distances per row
Distances(m, part) == [r \in 1..part.rows |-> Distance(m, part, r)]
\* the sum of squared distances of the rows of a shard to their nearest centroid
PartialInertia(m, part) ==
    SumSeq([r \in 1..part.rows |-> Distance(m, part, r) * Distance(m, part, r)])
\* line 119: model.score(data), the opposite of the shard's inertia;
\* test_score requires score(X) to be minus the summed squared distances
ModelScore(m, part) == -1 * PartialInertia(m, part)

\* what the job of kind name yields on a shard
JobValue(name, m, part) ==
    IF name = "score" THEN <<ModelScore(m, part)>>
    ELSE IF name = "transform" THEN Distances(m, part)
    ELSE Labels(m, part)

\* variant: one job per worker, on the first shard the worker holds
InferJobsPerWorker(x, delayed) ==
    LET order == FirstSeen(x.parts, Len(x.parts))
    IN  [k \in 1..Len(order) |->
            [part   |-> PartsOn(x.parts, order[k], Len(x.parts))[1],
             status |-> IF delayed THEN "lazy" ELSE "queued",
             value  |-> <<>>]]

\* DelayedPredictionMixin._run_parallel_func, after section 4.5 of the
\* specification: one job per shard of x, lazy in delayed mode and queued
\* for execution otherwise
InferJobs(x, delayed) ==
    [i \in 1..Len(x.parts) |->
        [part   |-> i,
         status |-> IF delayed THEN "lazy" ELSE "queued",
         value  |-> <<>>]]

JobSettled(f) == f.status \in {"done", "failed"}
\* the exception of a failed job
JobException(f) == [part |-> f.part]

\* the key under which a returned value is kept
ResultKey(c) == IF c.name = "predict" /\ c.delayed THEN "predict_delayed" ELSE c.name

\* the jobs of an inference call are created over the caller's dataset X
InferBegin(name, delayed) ==
    /\ futures' = InferJobs(X, delayed)
    /\ settled' = <<>>
    /\ error' = NoError
    /\ pc' = "infer"
    /\ UNCHANGED <<X, sample_weight, data, datatype, local_model, cluster_centers_,
                   sessions, comms, ncalls, pre, result>>

\* lines 184-202: predict(X, delayed) on the caller's dataset
Predict ==
    /\ pc = "idle"
    /\ \E delayed \in BOOLEAN :
          /\ call' = [name |-> "predict", sample_weight |-> NoWeights, delayed |-> delayed]
          /\ InferBegin("predict", delayed)

\* lines 223-240: transform(X, delayed)
Transform ==
    /\ pc = "idle"
    /\ \E delayed \in BOOLEAN :
          /\ call' = [name |-> "transform", sample_weight |-> NoWeights, delayed |-> delayed]
          /\ InferBegin("transform", delayed)

\* variant: score stores the layout of its input on the estimator
ScoreStoresType ==
    /\ pc = "idle"
    /\ call' = [name |-> "score", sample_weight |-> NoWeights, delayed |-> FALSE]
    /\ futures' = InferJobs(X, FALSE)
    /\ settled' = <<>>
    /\ error' = NoError
    /\ pc' = "infer"
    /\ datatype' = None
    /\ UNCHANGED <<X, sample_weight, data, local_model, cluster_centers_,
                   sessions, comms, ncalls, pre, result>>

\* lines 258-262: score(X) creates its jobs with delayed=False
Score ==
    /\ pc = "idle"
    /\ call' = [name |-> "score", sample_weight |-> NoWeights, delayed |-> FALSE]
    /\ InferBegin("score", FALSE)

\* the caller computes the lazy collection a delayed call returned
Compute ==
    /\ pc = "infer"
    /\ futures # <<>>
    /\ \A i \in 1..Len(futures) : futures[i].status = "lazy"
    /\ futures' = [i \in 1..Len(futures) |-> [futures[i] EXCEPT !.status = "queued"]]
    /\ UNCHANGED <<pc, X, sample_weight, data, datatype, local_model, cluster_centers_,
                   sessions, comms, ncalls, settled, error, pre, call, result>>

\* job i runs to its end on the worker of its shard
JobFinish(i) ==
    /\ i \in 1..Len(futures)
    /\ futures[i].status = "queued"
    /\ futures' = [futures EXCEPT
                       ![i].status = "done",
                       ![i].value = JobValue(call.name, local_model, X.parts[futures[i].part])]
    /\ settled' = Append(settled, i)
    /\ UNCHANGED <<pc, X, sample_weight, data, datatype, local_model, cluster_centers_,
                   sessions, comms, ncalls, error, pre, call, result>>

\* job i raises
JobFail(i) ==
    /\ i \in 1..Len(futures)
    /\ futures[i].status = "queued"
    /\ futures' = [futures EXCEPT ![i].status = "failed"]
    /\ settled' = Append(settled, i)
    /\ UNCHANGED <<pc, X, sample_weight, data, datatype, local_model, cluster_centers_,
                   sessions, comms, ncalls, error, pre, call, result>>

RECURSIVE JobErrors(_, _)
\* the exceptions of jobs[1..n], one per failed job, in the order of the jobs
JobErrors(jobs, n) ==
    IF n = 0 THEN <<>>
    ELSE JobErrors(jobs, n - 1)
         \o (IF jobs[n].status = "failed" THEN <<JobException(jobs[n])>> ELSE <<>>)

\* variant: the blocks are put together in the order the jobs finished
CollectInArrivalOrder ==
    /\ pc = "infer"
    /\ call.name # "score"
    /\ \A i \in 1..Len(futures) : JobSettled(futures[i])
    /\ LET errs == JobErrors(futures, Len(futures))
       IN  IF errs # <<>>
           THEN /\ error' = [kind |-> "DistributedInferenceError", causes |-> errs]
                /\ pc' = "infer_raised"
                /\ UNCHANGED result
           ELSE /\ result' = [result EXCEPT ![ResultKey(call)] =
                                  [k \in 1..Len(settled) |-> futures[settled[k]].value]]
                /\ pc' = "infer_returned"
                /\ UNCHANGED error
    /\ UNCHANGED <<X, sample_weight, data, datatype, local_model, cluster_centers_,
                   sessions, comms, ncalls, futures, settled, pre, call>>

\* DelayedPredictionMixin._predict and _transform, after section 4.5 of the
\* specification: the blocks of the jobs, one per shard in the order of the
\* shards, or the aggregated error when a job failed
Collect ==
    /\ pc = "infer"
    /\ call.name # "score"
    /\ \A i \in 1..Len(futures) : JobSettled(futures[i])
    /\ LET errs == JobErrors(futures, Len(futures))
       IN  IF errs # <<>>
           THEN /\ error' = [kind |-> "DistributedInferenceError", causes |-> errs]
                /\ pc' = "infer_raised"
                /\ UNCHANGED result
           ELSE /\ result' = [result EXCEPT ![ResultKey(call)] =
                                  [i \in 1..Len(futures) |-> futures[i].value]]
                /\ pc' = "infer_returned"
                /\ UNCHANGED error
    /\ UNCHANGED <<X, sample_weight, data, datatype, local_model, cluster_centers_,
                   sessions, comms, ncalls, futures, settled, pre, call>>

RECURSIVE FirstFailed(_, _)
\* the first of jobs[1..n], in the order of the jobs, that has failed, or 0
FirstFailed(jobs, n) ==
    IF n = 0 THEN 0
    ELSE LET k == FirstFailed(jobs, n - 1)
         IN  IF k # 0 THEN k ELSE IF jobs[n].status = "failed" THEN n ELSE 0

\* variant: the sum of the job results is negated once
ScoreGatherNegated ==
    /\ pc = "infer"
    /\ call.name = "score"
    /\ LET k == FirstFailed(futures, Len(futures))
       IN  IF k # 0
           THEN /\ error' = [kind |-> "JobException", causes |-> <<JobException(futures[k])>>]
                /\ pc' = "infer_raised"
                /\ UNCHANGED result
           ELSE /\ \A i \in 1..Len(futures) : futures[i].status = "done"
                /\ result' = [result EXCEPT !.score =
                                  <<-1 * SumSeq([i \in 1..Len(futures) |->
                                                    futures[i].value[1]])>>]
                /\ pc' = "infer_returned"
                /\ UNCHANGED error
    /\ UNCHANGED <<X, sample_weight, data, datatype, local_model, cluster_centers_,
                   sessions, comms, ncalls, futures, settled, pre, call>>

\* lines 264-265: -1 * cp.sum(cp.asarray(client.compute(scores, sync=True)) * -1.0).
\* The gather returns the results once every job is done, and raises the
\* exception of the first job in the list found failed as soon as a job
\* has failed.
ScoreGather ==
    /\ pc = "infer"
    /\ call.name = "score"
    /\ LET k == FirstFailed(futures, Len(futures))
       IN  IF k # 0
           THEN /\ error' = [kind |-> "JobException", causes |-> <<JobException(futures[k])>>]
                /\ pc' = "infer_raised"
                /\ UNCHANGED result
           ELSE /\ \A i \in 1..Len(futures) : futures[i].status = "done"
                /\ result' = [result EXCEPT !.score =
                                  <<-1 * SumSeq([i \in 1..Len(futures) |->
                                                    futures[i].value[1] * (-1)])>>]
                /\ pc' = "infer_returned"
                /\ UNCHANGED error
    /\ UNCHANGED <<X, sample_weight, data, datatype, local_model, cluster_centers_,
                   sessions, comms, ncalls, futures, settled, pre, call>>

\* the inference call returns or its exception leaves it; the frame of a
\* fit_predict call is dropped with it
InferExit ==
    /\ pc \in {"infer_returned", "infer_raised"}
    /\ pc' = "idle"
    /\ futures' = <<>>
    /\ settled' = <<>>
    /\ error' = NoError
    /\ call' = NoCall
    /\ IF call.name = "fit_predict"
       THEN /\ X' = NoInput
            /\ sample_weight' = NoWeights
            /\ data' = NoData
            /\ comms' = NoComms
            /\ pre' = Published
       ELSE UNCHANGED <<X, sample_weight, data, comms, pre>>
    /\ UNCHANGED <<datatype, local_model, cluster_centers_, sessions, ncalls, result>>

\* ---------------------------------------------------------- fit_predict
\* lines 167-182: fit_predict(X, sample_weight, delayed) begins with self.fit(X)
FitPredict ==
    /\ pc = "idle"
    /\ ncalls < MaxFits
    /\ \E x \in Datasets : \E sw \in WeightSets(x) : \E delayed \in BOOLEAN :
          /\ FitCall(x, NoWeights)
          /\ call' = [name |-> "fit_predict", sample_weight |-> sw, delayed |-> delayed]

\* line 182: .predict(X, delayed=delayed) on the estimator fit returned
FitPredictThen ==
    /\ pc = "returned"
    /\ call.name = "fit_predict"
    /\ InferBegin("predict", call.delayed)
    /\ UNCHANGED call

\* ------------------------------------------------------- specification
Init ==
    /\ pc = "idle"
    /\ X = NoInput
    /\ sample_weight = NoWeights
    /\ data = NoData
    /\ datatype = None
    /\ local_model = NoModel
    /\ cluster_centers_ = 0
    /\ sessions = <<>>
    /\ comms = NoComms
    /\ ncalls = 0
    /\ futures = <<>>
    /\ settled = <<>>
    /\ error = NoError
    /\ pre = [datatype |-> None, local_model |-> NoModel, cluster_centers_ |-> 0]
    /\ call = NoCall
    /\ result = NoResult

Next ==
    \/ Fit
    \/ FitComms
    \/ FitSubmit
    \/ FitWait
    \/ FitCheck
    \/ FitDestroy
    \/ FitSelect
    \/ FitExit
    \/ \E i \in 1..NumWorkers : TaskStart(i)
    \/ \E i \in 1..NumWorkers : TaskFinish(i)
    \/ \E i \in 1..NumWorkers : TaskFail(i)

Spec == Init /\ [][Next]_vars

\* The orchestrating process keeps taking the steps it can take.  Nothing
\* makes a worker start or finish its task: it may never be started, die, or
\* stall in a collective, and its future then never settles.
FitStep ==
    Fit \/ FitComms \/ FitSubmit \/ FitWait \/ FitCheck \/ FitDestroy \/ FitSelect \/ FitExit

FairSpec == Spec /\ WF_vars(FitStep)

\* An estimator that fit(X) has fitted and returned from, and the dataset X
\* the caller holds, on which the inference calls are made.
InferInit ==
    /\ pc = "idle"
    /\ X \in Datasets
    /\ sample_weight = NoWeights
    /\ data = NoData
    /\ datatype = X.type
    /\ local_model = [sessionId |-> 1, worker |-> X.parts[1].owner, cluster_centers_ |-> 1]
    /\ cluster_centers_ = 1
    /\ sessions = <<[state |-> "closed", destroyed |-> 1]>>
    /\ comms = NoComms
    /\ ncalls = 1
    /\ futures = <<>>
    /\ settled = <<>>
    /\ error = NoError
    /\ pre = [datatype |-> datatype, local_model |-> local_model,
              cluster_centers_ |-> cluster_centers_]
    /\ call = NoCall
    /\ result = NoResult

InferNext ==
    \/ Predict
    \/ Transform
    \/ Score
    \/ Compute
    \/ \E i \in 1..MaxShards : JobFinish(i)
    \/ \E i \in 1..MaxShards : JobFail(i)
    \/ Collect
    \/ ScoreGather
    \/ InferExit

InferSpec == InferInit /\ [][InferNext]_vars

FitPredictNext ==
    \/ FitPredict
    \/ FitComms
    \/ FitSubmit
    \/ FitWait
    \/ FitCheck
    \/ FitDestroy
    \/ FitSelect
    \/ FitExit
    \/ \E i \in 1..NumWorkers : TaskStart(i)
    \/ \E i \in 1..NumWorkers : TaskFinish(i)
    \/ \E i \in 1..NumWorkers : TaskFail(i)
    \/ FitPredictThen
    \/ Compute
    \/ \E i \in 1..MaxShards : JobFinish(i)
    \/ \E i \in 1..MaxShards : JobFail(i)
    \/ Collect
    \/ InferExit

FitPredictSpec == Init /\ [][FitPredictNext]_vars

\* ------------------------------------------------------------ properties
Failed(f) == f.status = "error"
FailedFutures == {i \in 1..Len(futures) : Failed(futures[i])}
AllSubmitted == Len(futures) = Len(data.worker_to_parts)
\* the indices of the feature shards a future was given
ShardsOf(f) == {f.objs[k][1] : k \in 1..Len(f.objs)}
OwnedBy(w) == {j \in 1..Len(X.parts) : X.parts[j].owner = w}

\* C1: a fit call that opened its session has closed it, exactly once, when
\* it returns or raises, and between calls no session is open.
C1_SessionClosedOnce ==
    /\ (pc \in {"returned", "raised"} /\ comms.sessionId # 0
            /\ sessions[comms.sessionId].state # "new")
        => (sessions[comms.sessionId].state = "closed"
            /\ sessions[comms.sessionId].destroyed = 1)
    /\ pc = "idle" => \A s \in 1..Len(sessions) : sessions[s].state # "open"

\* C2: when tasks of the round failed, fit raises one aggregated error that
\* carries the cause of every failed worker.
C2_AllCausesAggregated ==
    (pc = "raised" /\ FailedFutures # {})
    => /\ error.kind = "DistributedFitError"
       /\ \A i \in FailedFutures : FitException(futures[i]) \in Range(error.causes)
       /\ Len(error.causes) = Cardinality(FailedFutures)

\* two workers failed and the error was raised
C2_Witness ==
    /\ pc = "raised"
    /\ Cardinality(FailedFutures) >= 2

\* C3: fit goes on to select a model and return only when every task of the
\* round succeeded; with a failed task it selects no model, whichever task
\* failed and in whatever order the tasks settled.
C3_ReturnsOnlyIfAllSucceeded ==
    /\ pc \in {"destroy", "select", "returned"}
        => /\ AllSubmitted
           /\ \A i \in 1..Len(futures) : futures[i].status = "finished"
    /\ FailedFutures # {}
        => /\ pc \in {"submit", "wait", "check", "raised"}
           /\ local_model = pre.local_model
           /\ cluster_centers_ = pre.cluster_centers_
    /\ (pc = "raised" /\ error.kind = "DistributedFitError") => FailedFutures # {}

\* fit raised although the first worker's task succeeded, and settled first
C3_Witness ==
    /\ pc = "raised"
    /\ Len(futures) >= 2
    /\ futures[1].status = "finished"
    /\ settled[1] = 1
    /\ FailedFutures # {}

\* C4: when fit raises, the published fields hold the values they had
\* before the call.
C4_FailingFitPublishesNothing ==
    pc = "raised" => Published = pre

\* C5: no result is awaited before every task is submitted, and no result is
\* inspected before every task has settled.
C5_FanOutThenBarrier ==
    /\ pc \in {"wait", "check", "destroy", "select", "returned"} => AllSubmitted
    /\ pc \in {"check", "destroy", "select", "returned"}
        => \A i \in 1..Len(futures) : Settled(futures[i])
    /\ (pc = "raised" /\ futures # <<>>)
        => AllSubmitted /\ \A i \in 1..Len(futures) : Settled(futures[i])

\* fit is waiting and the tasks of two workers are running at the same time
C5_Witness ==
    /\ pc = "wait"
    /\ Len(futures) >= 2
    /\ \A i \in 1..Len(futures) : futures[i].status = "running"

\* C6: one task per worker of the assignment, pinned to that worker, given
\* exactly that worker's shards, and run on the worker that owns them.
C6_OneTaskPerOwner ==
    /\ \A i \in 1..Len(futures) :
          LET f == futures[i]
          IN  /\ \E w \in Workers : f.workers = {w} /\ ShardsOf(f) = OwnedBy(w)
              /\ f.ranOn # 0 => \A j \in ShardsOf(f) : X.parts[j].owner = f.ranOn
              /\ \A k \in 1..Len(f.objs) :
                    Len(f.objs[k]) = 2
                    => sample_weight[f.objs[k][2]].owner = X.parts[f.objs[k][1]].owner
    /\ \A i, j \in 1..Len(futures) : i # j => futures[i].workers # futures[j].workers
    /\ pc \in {"wait", "check", "destroy", "select", "returned"}
        => UNION {futures[i].workers : i \in 1..Len(futures)}
              = {X.parts[j].owner : j \in 1..Len(X.parts)}

\* fit is waiting for the tasks of two workers, each started on a worker
C6_Witness ==
    /\ pc = "wait"
    /\ Len(futures) >= 2
    /\ \A i \in 1..Len(futures) : futures[i].ranOn # 0

\* C7: once fit waits for its tasks it eventually returns or raises.
C7_FitTerminates ==
    (pc = "wait") ~> (pc \in {"returned", "raised"})

\* C8: when opening the session fails, no task is submitted and the open
\* failure is what fit raises.
C8_NoSubmitAfterOpenFailure ==
    (comms.sessionId # 0 /\ sessions[comms.sessionId].state = "new")
    => /\ futures = <<>>
       /\ pc = "raised"
       /\ error.kind = "CommsInitError"

\* the open failed and fit raised
C8_Witness ==
    /\ pc = "raised"
    /\ error.kind = "CommsInitError"
    /\ sessions[comms.sessionId].state = "new"

\* C9: after a successful fit the published model is the result of the
\* first worker of the assignment, of this call, whatever the order in which
\* the futures completed.
C9_FirstWorkerSelected ==
    pc = "returned"
    => /\ local_model.worker = data.worker_to_parts[1][1]
       /\ local_model.sessionId = comms.sessionId
       /\ cluster_centers_ = local_model.cluster_centers_

\* fit returned and the first worker's future was not the first to complete
C9_Witness ==
    /\ pc = "returned"
    /\ Len(settled) >= 2
    /\ settled[1] # 1

\* C10: in the assignment every input shard is listed once, under the
\* worker it resides on, and the per-worker row counts sum to the row count
\* of the input.
AssignedRows(wf) == SumSeq([m \in 1..Len(wf[2]) |-> X.parts[wf[2][m][1]].rows])
RECURSIVE AssignedShards(_, _)
\* the feature shards listed under the first k workers, with repetitions
AssignedShards(w2p, k) ==
    IF k = 0 THEN <<>>
    ELSE AssignedShards(w2p, k - 1)
         \o [m \in 1..Len(w2p[k][2]) |-> w2p[k][2][m][1]]
C10_AssignmentPartitionsInput ==
    data # NoData
    => LET w2p == data.worker_to_parts
           all == AssignedShards(w2p, Len(w2p))
       IN  /\ Len(all) = Len(X.parts)
           /\ Range(all) = 1..Len(X.parts)
           /\ \A k \in 1..Len(w2p) : \A m \in 1..Len(w2p[k][2]) :
                 X.parts[w2p[k][2][m][1]].owner = w2p[k][1]
           /\ SumSeq([k \in 1..Len(w2p) |-> AssignedRows(w2p[k])])
                 = SumSeq([j \in 1..Len(X.parts) |-> X.parts[j].rows])
           /\ \A i \in 1..Len(futures) : futures[i].objs = w2p[i][2]

\* an assignment in which one worker holds two shards was used by a task
C10_Witness ==
    /\ data # NoData
    /\ futures # <<>>
    /\ Len(futures[1].objs) >= 2

\* C11: the session of a fit call enrolls exactly the workers that hold at
\* least one shard of X, and these are exactly the workers the fit tasks
\* are restricted to.
ShardHolders == {X.parts[j].owner : j \in 1..Len(X.parts)}
C11_EnrolledAreShardHolders ==
    comms # NoComms =>
        /\ comms.workers = ShardHolders
        /\ \A i \in 1..Len(futures) : futures[i].workers \subseteq comms.workers
        /\ (futures # <<>> /\ AllSubmitted) =>
               comms.workers = UNION {futures[i].workers : i \in 1..Len(futures)}

C11_Witness ==
    /\ pc = "wait"
    /\ comms.workers # Workers
    /\ comms.workers = UNION {futures[i].workers : i \in 1..Len(futures)}

\* C16: a fit call whose weights do not align with X shard for shard and row
\* count for row count raises the alignment error, with no session opened
\* and no task submitted.
C16_MisalignedFailsFirst ==
    (pc # "idle" /\ ~Aligned(X, sample_weight)) =>
        /\ pc = "raised"
        /\ error.kind = "ShardAlignmentError"
        /\ comms = NoComms
        /\ futures = <<>>

C16_Witness ==
    /\ pc = "raised"
    /\ sample_weight # NoWeights
    /\ ~Aligned(X, sample_weight)
    /\ error.kind = "ShardAlignmentError"

SessionOf(f) == sessions[f.sessionId]
C19_SessionSpansTasks ==
    /\ [](/\ pc \in {"submit", "wait", "check", "destroy"} =>
                sessions[comms.sessionId].state = "open"
          /\ \A i \in 1..Len(futures) :
                /\ ~Settled(futures[i]) => SessionOf(futures[i]).state = "open"
                /\ SessionOf(futures[i]).state = "closed" =>
                       /\ AllSubmitted
                       /\ \A j \in 1..Len(futures) : Settled(futures[j]))
    /\ [][sessions' # sessions => (FitComms \/ FitDestroy)]_vars

C19_Witness ==
    /\ pc = "select"
    /\ Len(futures) >= 2
    /\ sessions[comms.sessionId].state = "closed"

\* C12: the value score(X) returned is minus the sum, over all shards of X,
\* of the shard's sum of squared distances of its rows to their nearest
\* centroid.
TotalInertia == SumSeq([i \in 1..Len(X.parts) |-> PartialInertia(local_model, X.parts[i])])
PredictKeys == {"predict", "predict_delayed"}
C15_AllFailuresAggregated ==
    [][(pc = "infer" /\ pc' # "infer") =>
          \A i \in 1..Len(futures) :
              futures[i].status = "failed" =>
                  /\ pc' = "infer_raised"
                  /\ result' = result
                  /\ JobException(futures[i]) \in Range(error'.causes)]_vars

\* C17: predict, transform and score leave local_model, cluster_centers_ and
\* datatype as they were and open no session.
C17_InferenceReadsOnly ==
    /\ Published = pre
    /\ sessions = <<[state |-> "closed", destroyed |-> 1]>>
    /\ comms = NoComms

C17_Witness ==
    /\ result.predict # <<>>
    /\ result.transform # <<>>
    /\ result.score # <<>>
    /\ pc = "infer_returned"

\* C20: the fit inside fit_predict(X, sample_weight) receives the caller's
\* sample_weight, as fit(X, sample_weight) followed by predict(X) would.
C20_FitPredictPassesWeights ==
    call.name = "fit_predict" =>
        /\ sample_weight = call.sample_weight
        /\ \A i \in 1..Len(futures) :
               futures[i].status \in {"running", "finished", "error"} =>
                   (futures[i].inp_weights # NoWeights <=> call.sample_weight # NoWeights)

====
